---- MODULE Spec2Model ----
(***************************************************************************)
(* Model of src/src/value.rs: the compact representation of Simplicity     *)
(* values (Bits, Bytes, ExtValue), the conversion from generic values      *)
(* (impl From<&Value> for ExtValue), structural splitting, type-directed   *)
(* reconstruction (ExtValue::from_bits) and textual rendering.             *)
(*                                                                         *)
(* Conventions.  A Rust bool is modelled as 0 (false) or 1 (true).  Rust   *)
(* vectors are sequences; a Rust index i is the sequence index i + 1, so   *)
(* the fields start and len keep their 0-based Rust values.  Arc<..> is    *)
(* modelled by the value it points to (everything is immutable).  A panic  *)
(* (assert!, unwrap, expect, and debug_assert! in a build with debug       *)
(* assertions) is the distinguished outcome Panic.                         *)
(***************************************************************************)
EXTENDS Integers, Sequences, FiniteSets, TLC

VARIABLES
    debug_assertions, \* whether the build compiles debug_assert! in
    pc,               \* position of the operation being run
    value,            \* compress: the generic value being converted
    path,             \* compress: which branch of From::from produced ext
    todo,             \* compress: post-order nodes still to be processed
    stack,            \* compress: the stack of Items of the general pass
    ext,              \* compress: the returned ExtValue (or Panic)
    ty,               \* from_bits: the type descriptor
    it,               \* from_bits: the bits the iterator has not yielded yet
    given,            \* from_bits: the bits the iterator held at the call
    task_stack,       \* from_bits: task stack
    result_stack,     \* from_bits: result stack
    decoded,          \* from_bits: the returned ExtValue (or Panic)
    e,                \* split / render: the current object
    prev,             \* split: the object the last operation was applied to
    res,              \* split: what the last operation returned
    text              \* render: the text written by fmt

vars == <<debug_assertions, pc, value, path, todo, stack, ext, ty, it, given,
          task_stack, result_stack, decoded, e, prev, res, text>>

compressVars == <<value, path, todo, stack, ext>>
decodeVars == <<ty, it, given, task_stack, result_stack, decoded>>
splitVars == <<e, prev, res, text>>

\* ------------------------------------------------------------------------
\* Bounds of the model
\* ------------------------------------------------------------------------

\* Every generic value of at most this depth is an input of compress.
MaxDepth == 2

\* Every type descriptor of at most this depth is an input of from_bits.
MaxTypeDepth == 2

\* from_bits is given every bit sequence of at most this length.
MaxBits == 3

\* ------------------------------------------------------------------------
\* Outcomes
\* ------------------------------------------------------------------------

Panic == <<"Panic">>
None == <<"None">>
Err == <<"Err">>
Ok(x) == <<"Ok", x>>
Some(x) == <<"Some", x>>

\* ------------------------------------------------------------------------
\* Generic values (simplicity::Value) and their traversals
\* ------------------------------------------------------------------------

Unit == <<"Unit">>
SumL(v) == <<"SumL", v>>
SumR(v) == <<"SumR", v>>
Prod(l, r) == <<"Prod", l, r>>

Tag(v) == v[1]

RECURSIVE PreOrder(_)
PreOrder(v) ==
    CASE Tag(v) = "Unit" -> <<v>>
      [] Tag(v) \in {"SumL", "SumR"} -> <<v>> \o PreOrder(v[2])
      [] Tag(v) = "Prod" -> <<v>> \o PreOrder(v[2]) \o PreOrder(v[3])

RECURSIVE PostOrder(_)
PostOrder(v) ==
    CASE Tag(v) = "Unit" -> <<v>>
      [] Tag(v) \in {"SumL", "SumR"} -> PostOrder(v[2]) \o <<v>>
      [] Tag(v) = "Prod" -> PostOrder(v[2]) \o PostOrder(v[3]) \o <<v>>

\* Value::len: the number of SumL / SumR nodes.
\* (The loops over a sequence of nodes are evaluated over the index range
\* lo..hi, first half then second half, which keeps their order.)
RECURSIVE CountSums(_, _, _)
CountSums(nodes, lo, hi) ==
    IF lo > hi THEN 0
    ELSE IF lo = hi THEN (IF Tag(nodes[lo]) \in {"SumL", "SumR"} THEN 1 ELSE 0)
    ELSE CountSums(nodes, lo, (lo + hi) \div 2)
         + CountSums(nodes, (lo + hi) \div 2 + 1, hi)

Value_len(v) == LET nodes == PreOrder(v) IN CountSums(nodes, 1, Len(nodes))

\* Value::do_each_bit: one bit per SumL (0) / SumR (1) node, in pre-order.
RECURSIVE EachBit(_, _, _)
EachBit(nodes, lo, hi) ==
    IF lo > hi THEN <<>>
    ELSE IF lo = hi THEN
        (CASE Tag(nodes[lo]) = "SumL" -> <<0>>
           [] Tag(nodes[lo]) = "SumR" -> <<1>>
           [] OTHER -> <<>>)
    ELSE EachBit(nodes, lo, (lo + hi) \div 2)
         \o EachBit(nodes, (lo + hi) \div 2 + 1, hi)

do_each_bit(v) == LET nodes == PreOrder(v) IN EachBit(nodes, 1, Len(nodes))

RECURSIVE is_power_of_two(_)
is_power_of_two(n) ==
    IF n <= 0 THEN FALSE
    ELSE IF n = 1 THEN TRUE
    ELSE n % 2 = 0 /\ is_power_of_two(n \div 2)

RECURSIVE Pow2(_)
Pow2(n) == IF n = 0 THEN 1 ELSE 2 * Pow2(n - 1)

\* byte & (1 << (7 - i)) != 0, for i = 0..7
ByteBit(byte, i) == (byte \div Pow2(7 - i)) % 2

ByteToBits(byte) == [j \in 1..8 |-> ByteBit(byte, j - 1)]

\* fold(0, |acc, b| acc * 2 + b) over bits[from..=to] (u8 arithmetic)
RECURSIVE FoldBits(_, _, _, _)
FoldBits(bits, from, to, acc) ==
    IF from > to THEN acc
    ELSE FoldBits(bits, from + 1, to, (acc * 2 + bits[from]) % 256)

\* Value::to_bytes_len: the bits of do_each_bit packed 8 to a byte, most
\* significant first, the last byte padded with zero bits.
to_bytes_len(v) ==
    LET bits == do_each_bit(v)
        n == Len(bits)
        padded == bits \o [j \in 1..((8 - (n % 8)) % 8) |-> 0]
        nbytes == Len(padded) \div 8
    IN  <<[k \in 1..nbytes |-> FoldBits(padded, 8 * (k - 1) + 1, 8 * k, 0)], n>>

\* Value::try_to_bytes
try_to_bytes(v) ==
    LET r == to_bytes_len(v)
    IN  IF r[2] % 8 = 0 THEN Ok(r[1]) ELSE Err

\* ------------------------------------------------------------------------
\* Bits
\* ------------------------------------------------------------------------

\* struct Bits { bits, start, len } is the tuple <<bits, start, len>>
MkBits(bits, start, len) == <<bits, start, len>>

Bits_from_bits(bits) ==
    IF ~is_power_of_two(Len(bits)) THEN Panic
    ELSE MkBits(bits, 0, Len(bits))

Bits_from_bit(bit) == MkBits(<<bit>>, 0, 1)

Bits_from_byte(byte) == MkBits(ByteToBits(byte), 0, 8)

Bits_split_wrong_start(self) ==
    IF debug_assertions /\ ~is_power_of_two(self[3]) THEN Panic
    ELSE IF self[3] = 1 THEN None
    ELSE Some(<<MkBits(self[1], self[2], self[3] \div 2),
                MkBits(self[1], self[3] \div 2, self[3] \div 2)>>)

Bits_split(self) ==
    IF debug_assertions /\ ~is_power_of_two(self[3]) THEN Panic
    ELSE IF self[3] = 1 THEN None
    ELSE Some(<<MkBits(self[1], self[2], self[3] \div 2),
                MkBits(self[1], self[2] + self[3] \div 2, self[3] \div 2)>>)

Bits_get_bit(self) ==
    IF self[3] = 1 THEN Some(self[1][self[2] + 1]) ELSE None

Bits_bit_length(self) == self[3]

\* self[1].iter().copied(): the whole backing vector
Bits_iter_bits(self) == self[1]

\* impl fmt::Display for Bits: "0b", then one character per bit of the window
Bits_fmt(self) ==
    <<"0b">> \o [j \in 1..self[3] |->
                    IF self[1][self[2] + j] = 1 THEN "1" ELSE "0"]

\* do_each_bit_strict: Ok with the bits handed to f, in order, or Err at the
\* first SumL / SumR that wraps something other than Unit and at the first
\* Prod whose two children are both Unit.
\* the body of the loop for one node: Ok(the bits handed to f so far) or Err
StrictNode(data, called) ==
    CASE Tag(data) = "Unit" -> Ok(called)
      [] Tag(data) = "SumL" ->
            IF data[2] = Unit THEN Ok(Append(called, 0)) ELSE Err
      [] Tag(data) = "SumR" ->
            IF data[2] = Unit THEN Ok(Append(called, 1)) ELSE Err
      [] Tag(data) = "Prod" ->
            IF data[2] = Unit /\ data[3] = Unit THEN Err ELSE Ok(called)

RECURSIVE StrictLoop(_, _, _, _)
StrictLoop(nodes, lo, hi, called) ==
    IF lo > hi THEN Ok(called)
    ELSE IF lo = hi THEN StrictNode(nodes[lo], called)
    ELSE LET r == StrictLoop(nodes, lo, (lo + hi) \div 2, called) IN
         IF r = Err THEN Err
         ELSE StrictLoop(nodes, (lo + hi) \div 2 + 1, hi, r[2])

do_each_bit_strict_lax(v) == Ok(do_each_bit(v))

do_each_bit_strict(v) ==
    LET nodes == PreOrder(v) IN StrictLoop(nodes, 1, Len(nodes), <<>>)

\* impl TryFrom<&Value> for Bits
Bits_try_from(v) ==
    IF ~is_power_of_two(Value_len(v)) THEN Err
    ELSE LET r == do_each_bit_strict(v) IN
         IF r = Err THEN Err
         ELSE Ok(MkBits(r[2], 0, Len(r[2])))

\* ------------------------------------------------------------------------
\* Bytes
\* ------------------------------------------------------------------------

\* struct Bytes { bytes, start, len } is the tuple <<bytes, start, len>>
MkBytes(bytes, start, len) == <<bytes, start, len>>

Bytes_from_bytes(bytes) ==
    IF ~is_power_of_two(Len(bytes)) THEN Panic
    ELSE MkBytes(bytes, 0, Len(bytes))

Bytes_byte_length(self) == self[3]

\* self[1].iter().copied(): the whole backing vector
Bytes_iter_bytes(self) == self[1]

RECURSIVE FlatBits(_, _, _)
FlatBits(bytes, lo, hi) ==
    IF lo > hi THEN <<>>
    ELSE IF lo = hi THEN ByteToBits(bytes[lo])
    ELSE FlatBits(bytes, lo, (lo + hi) \div 2)
         \o FlatBits(bytes, (lo + hi) \div 2 + 1, hi)

Bytes_iter_bits(self) ==
    LET bytes == Bytes_iter_bytes(self) IN FlatBits(bytes, 1, Len(bytes))

Bytes_split_low_nibble_first(self) ==
    IF debug_assertions /\ ~is_power_of_two(self[3]) THEN Panic
    ELSE IF self[3] = 1 THEN
        LET halves == Bits_split(Bits_from_byte(self[1][self[2] + 1]))
        IN  IF halves[1] = "Some" THEN <<"Err", <<halves[2][2], halves[2][1]>>>> ELSE Panic
    ELSE Ok(<<MkBytes(self[1], self[2], self[3] \div 2),
              MkBytes(self[1], self[2] + self[3] \div 2, self[3] \div 2)>>)

\* Bytes::split: Ok((Bytes, Bytes)), or Err((Bits, Bits)) for a single byte
Bytes_split(self) ==
    IF debug_assertions /\ ~is_power_of_two(self[3]) THEN Panic
    ELSE IF self[3] = 1 THEN
        LET halves == Bits_split(Bits_from_byte(self[1][self[2] + 1]))
        IN  IF halves[1] = "Some" THEN <<"Err", halves[2]>> ELSE Panic
    ELSE Ok(<<MkBytes(self[1], self[2], self[3] \div 2),
              MkBytes(self[1], self[2] + self[3] \div 2, self[3] \div 2)>>)

HexDigit(n) ==
    <<"0", "1", "2", "3", "4", "5", "6", "7",
      "8", "9", "a", "b", "c", "d", "e", "f">>[n + 1]

\* impl fmt::Display for Bytes: "0x", then two lowercase hex digits per byte
\* of the window
Bytes_fmt(self) ==
    <<"0x">> \o [j \in 1..(2 * self[3]) |->
                    LET byte == self[1][self[2] + ((j + 1) \div 2)]
                    IN  IF j % 2 = 1 THEN HexDigit(byte \div 16)
                        ELSE HexDigit(byte % 16)]

\* impl TryFrom<&Value> for Bytes.  The closure add_bit only fills the local
\* vector that line 266 shadows, and never pushes to unfinished_byte, so the
\* debug_assert of line 264 holds; the result is value.try_to_bytes().
Bytes_try_from(v) ==
    IF ~is_power_of_two(Value_len(v)) THEN Err
    ELSE IF Value_len(v) % 8 # 0 THEN Err
    ELSE LET r == do_each_bit_strict(v) IN
         IF r = Err THEN Err
         ELSE LET bytes == try_to_bytes(v) IN
              IF bytes = Err THEN Err
              ELSE Ok(MkBytes(bytes[2], 0, Len(bytes[2])))

\* ------------------------------------------------------------------------
\* ExtValue
\* ------------------------------------------------------------------------

ExtUnit == <<"Unit">>
ExtLeft(c) == <<"Left", c>>
ExtRight(c) == <<"Right", c>>
ExtProduct(l, r) == <<"Product", l, r>>
ExtBits(bits) == <<"Bits", bits>>
ExtBytes(bytes) == <<"Bytes", bytes>>

\* impl DagLike for &ExtValue, walked in pre-order
RECURSIVE ExtPreOrder(_)
ExtPreOrder(x) ==
    CASE Tag(x) \in {"Unit", "Bits", "Bytes"} -> <<x>>
      [] Tag(x) \in {"Left", "Right"} -> <<x>> \o ExtPreOrder(x[2])
      [] Tag(x) = "Product" -> <<x>> \o ExtPreOrder(x[2]) \o ExtPreOrder(x[3])

\* the closure of bit_width for one node
NodeWidth(inner) ==
    CASE Tag(inner) \in {"Unit", "Product"} -> 0
      [] Tag(inner) \in {"Left", "Right"} -> 1
      [] Tag(inner) = "Bits" -> Bits_bit_length(inner[2])
      [] Tag(inner) = "Bytes" -> Bytes_byte_length(inner[2]) * 8

RECURSIVE SumWidths(_, _, _)
SumWidths(nodes, lo, hi) ==
    IF lo > hi THEN 0
    ELSE IF lo = hi THEN NodeWidth(nodes[lo])
    ELSE SumWidths(nodes, lo, (lo + hi) \div 2)
         + SumWidths(nodes, (lo + hi) \div 2 + 1, hi)

ExtValue_bit_width(self) ==
    LET nodes == ExtPreOrder(self) IN SumWidths(nodes, 1, Len(nodes))

\* the closure of iter_bits for one node
NodeBits(inner) ==
    CASE Tag(inner) \in {"Unit", "Product"} -> <<>>
      [] Tag(inner) = "Left" -> <<0>>
      [] Tag(inner) = "Right" -> <<1>>
      [] Tag(inner) = "Bits" -> Bits_iter_bits(inner[2])
      [] Tag(inner) = "Bytes" -> Bytes_iter_bits(inner[2])

RECURSIVE FlatMapBits(_, _, _)
FlatMapBits(nodes, lo, hi) ==
    IF lo > hi THEN <<>>
    ELSE IF lo = hi THEN NodeBits(nodes[lo])
    ELSE FlatMapBits(nodes, lo, (lo + hi) \div 2)
         \o FlatMapBits(nodes, (lo + hi) \div 2 + 1, hi)

ExtValue_iter_bits(self) ==
    LET nodes == ExtPreOrder(self) IN FlatMapBits(nodes, 1, Len(nodes))

ExtValue_split_left(self) ==
    CASE Tag(self) = "Left" -> Some(self[2])
      [] Tag(self) = "Bits" ->
            LET b == Bits_get_bit(self[2]) IN
            IF b = None THEN None
            ELSE IF b[2] = 0 THEN Some(ExtUnit) ELSE None
      [] OTHER -> None

ExtValue_split_right(self) ==
    CASE Tag(self) = "Right" -> Some(self[2])
      [] Tag(self) = "Bits" ->
            LET b == Bits_get_bit(self[2]) IN
            IF b = None THEN None
            ELSE IF b[2] = 1 THEN Some(ExtUnit) ELSE None
      [] OTHER -> None

ExtValue_split_product(self) ==
    CASE Tag(self) = "Product" -> Some(<<self[2], self[3]>>)
      [] Tag(self) = "Bits" ->
            LET r == Bits_split(self[2]) IN
            IF r[1] = "Some" THEN Some(<<ExtBits(r[2][1]), ExtBits(r[2][2])>>)
            ELSE r
      [] Tag(self) = "Bytes" ->
            LET r == Bytes_split(self[2]) IN
            CASE r[1] = "Ok" -> Some(<<ExtBytes(r[2][1]), ExtBytes(r[2][2])>>)
              [] r[1] = "Err" -> Some(<<ExtBits(r[2][1]), ExtBits(r[2][2])>>)
              [] OTHER -> r
      [] OTHER -> None

\* ------------------------------------------------------------------------
\* impl From<&Value> for ExtValue (compress)
\* ------------------------------------------------------------------------

\* bits_to_byte: byte = byte << 1 | bit over exactly 8 bits
bits_to_byte(bits) ==
    IF Len(bits) # 8 THEN Panic ELSE FoldBits(bits, 1, 8, 0)

\* enum Item
ItemValue(x) == <<"ItemValue", x>>
ItemBits(bits) == <<"ItemBits", bits>>
ItemBytes(bytes) == <<"ItemBytes", bytes>>

\* Item::into_extvalue
into_extvalue(item) ==
    CASE item[1] = "ItemValue" -> item[2]
      [] item[1] = "ItemBits" ->
            LET b == Bits_from_bits(item[2]) IN
            IF b = Panic THEN Panic ELSE ExtBits(b)
      [] item[1] = "ItemBytes" ->
            LET b == Bytes_from_bytes(item[2]) IN
            IF b = Panic THEN Panic ELSE ExtBytes(b)

Pop(stk) == SubSeq(stk, 1, Len(stk) - 1)
Top(stk) == stk[Len(stk)]

\* the Value::SumL / Value::SumR arms: bit is 0 for SumL, 1 for SumR
SumArm(stk, bit) ==
    IF Len(stk) < 1 THEN Panic
    ELSE IF Top(stk) = ItemValue(ExtUnit) THEN Ok(Append(Pop(stk), ItemBits(<<bit>>)))
    ELSE LET child == into_extvalue(Top(stk)) IN
         IF child = Panic THEN Panic
         ELSE Ok(Append(Pop(stk),
                        ItemValue(IF bit = 0 THEN ExtLeft(child) ELSE ExtRight(child))))

\* the Value::Prod arm: right is popped before left
ProdArm(stk, dbg) ==
    IF Len(stk) < 2 THEN Panic
    ELSE LET right == Top(stk)
             left == Top(Pop(stk))
             rest == Pop(Pop(stk))
         IN
         CASE right[1] = "ItemBits" /\ left[1] = "ItemBits" ->
                IF dbg /\ Len(right[2]) # Len(left[2]) THEN Panic
                ELSE IF dbg /\ Len(right[2]) \notin {1, 2, 4} THEN Panic
                ELSE LET joined == left[2] \o right[2] IN
                     IF Len(joined) = 8
                     THEN Ok(Append(rest, ItemBytes(<<bits_to_byte(joined)>>)))
                     ELSE Ok(Append(rest, ItemBits(joined)))
           [] right[1] = "ItemBytes" /\ left[1] = "ItemBytes" ->
                IF dbg /\ Len(right[2]) # Len(left[2]) THEN Panic
                ELSE IF dbg /\ Len(right[2]) = 0 THEN Panic
                ELSE Ok(Append(rest, ItemBytes(left[2] \o right[2])))
           [] OTHER ->
                LET l == into_extvalue(left)
                    r == into_extvalue(right)
                IN  IF l = Panic \/ r = Panic THEN Panic
                    ELSE Ok(Append(rest, ItemValue(ExtProduct(l, r))))

\* one iteration of the loop over value.post_order_iter(): match data.node;
\* Ok(the stack after it) or Panic
PassNode(stk, node, dbg) ==
    CASE Tag(node) = "Unit" -> Ok(Append(stk, ItemValue(ExtUnit)))
      [] Tag(node) = "SumL" -> SumArm(stk, 0)
      [] Tag(node) = "SumR" -> SumArm(stk, 1)
      [] Tag(node) = "Prod" -> ProdArm(stk, dbg)

\* after the loop: debug_assert!(stack.len() == 1); pop, unwrap, into_extvalue
PassResult(stk, dbg) ==
    IF dbg /\ Len(stk) # 1 THEN Panic
    ELSE IF Len(stk) < 1 THEN Panic
    ELSE into_extvalue(Top(stk))

\* the loop over nodes[lo..hi], in order: Ok(the stack after it) or Panic
RECURSIVE PassLoop(_, _, _, _, _)
PassLoop(nodes, lo, hi, stk, dbg) ==
    IF lo > hi THEN Ok(stk)
    ELSE IF lo = hi THEN PassNode(stk, nodes[lo], dbg)
    ELSE LET r == PassLoop(nodes, lo, (lo + hi) \div 2, stk, dbg) IN
         IF r = Panic THEN Panic
         ELSE PassLoop(nodes, (lo + hi) \div 2 + 1, hi, r[2], dbg)

\* the else branch of From::from: the post-order stack pass alone
GeneralPass(v, dbg) ==
    LET nodes == PostOrder(v)
        r == PassLoop(nodes, 1, Len(nodes), <<>>, dbg)
    IN  IF r = Panic THEN Panic ELSE PassResult(r[2], dbg)

\* ExtValue::from(value)
ExtValue_from(v, dbg) ==
    LET bytes == Bytes_try_from(v)
        bits == Bits_try_from(v)
    IN  IF bytes # Err THEN ExtBytes(bytes[2])
        ELSE IF bits # Err THEN ExtBits(bits[2])
        ELSE GeneralPass(v, dbg)

\* ------------------------------------------------------------------------
\* Inputs of compress
\* ------------------------------------------------------------------------

\* every generic value of depth at most d
RECURSIVE Trees(_)
Trees(d) ==
    IF d = 0 THEN {Unit}
    ELSE LET sub == Trees(d - 1) IN
         {Unit} \cup {SumL(t) : t \in sub} \cup {SumR(t) : t \in sub}
                \cup {Prod(a, b) : a \in sub, b \in sub}

\* the balanced tree of pairs over the given bits (a power of two of them)
RECURSIVE WordOf(_)
WordOf(bits) ==
    IF Len(bits) = 1 THEN (IF bits[1] = 0 THEN SumL(Unit) ELSE SumR(Unit))
    ELSE Prod(WordOf(SubSeq(bits, 1, Len(bits) \div 2)),
              WordOf(SubSeq(bits, Len(bits) \div 2 + 1, Len(bits))))

SampleBytes == {0, 85, 111, 171, 205, 255}

\* balanced trees with 2^k bit leaves: all of them up to a nibble, and above
\* that the ones whose bytes are sample bytes
RECURSIVE UniformWords(_)
UniformWords(k) ==
    IF k = 0 THEN {SumL(Unit), SumR(Unit)}
    ELSE IF k = 3 THEN {WordOf(ByteToBits(b)) : b \in SampleBytes}
    ELSE LET half == UniformWords(k - 1) IN {Prod(a, b) : a \in half, b \in half}

\* Largest k for which the balanced trees of 2^k bits are inputs of compress.
MaxLog == 4

Words == UNION {UniformWords(k) : k \in 0..MaxLog}

\* values that mix runs of different lengths, injections and units
Parts ==
    {Unit, SumL(Unit), SumR(SumL(Unit)), Prod(Unit, SumR(Unit))}
    \cup {WordOf(<<0, 1>>), WordOf(<<1, 0, 1>> \o <<1>>), WordOf(ByteToBits(111)),
          WordOf(ByteToBits(171) \o ByteToBits(205))}
    \cup {Prod(SumL(Unit), WordOf(<<0, 1>>)),
          Prod(SumR(Unit), WordOf(<<0, 1, 1, 0>>)),
          Prod(WordOf(ByteToBits(85)), WordOf(ByteToBits(0) \o ByteToBits(255))),
          Prod(SumL(Unit), Prod(SumR(Unit), Prod(SumL(Unit), SumR(Unit))))}

Mixed ==
    {Prod(a, b) : a \in Parts, b \in Parts}
    \cup {SumL(a) : a \in Parts} \cup {SumR(a) : a \in Parts}
    \cup {SumL(Prod(a, b)) : a \in Parts, b \in Parts}

InputValues == Trees(MaxDepth) \cup Words \cup Parts \cup Mixed

\* ------------------------------------------------------------------------
\* Compress as a state machine: ExtValue::from(value)
\* ------------------------------------------------------------------------

NoValue == <<"NoValue">>

decodeIdle ==
    /\ ty = NoValue /\ it = <<>> /\ given = <<>>
    /\ task_stack = <<>> /\ result_stack = <<>> /\ decoded = NoValue

splitIdle == e = NoValue /\ prev = NoValue /\ res = NoValue /\ text = <<>>

compressIdle ==
    value = NoValue /\ path = "none" /\ todo = <<>> /\ stack = <<>> /\ ext = NoValue

InitCompress ==
    /\ debug_assertions \in BOOLEAN
    /\ pc = "from"
    /\ value \in InputValues
    /\ path = "none" /\ todo = <<>> /\ stack = <<>> /\ ext = NoValue
    /\ decodeIdle /\ splitIdle

\* line 505: if let Ok(bytes) = Bytes::try_from(value)
FromTryBytes ==
    /\ pc = "from"
    /\ LET bytes == Bytes_try_from(value) IN
       IF bytes # Err
       THEN /\ ext' = ExtBytes(bytes[2])
            /\ path' = "bytes"
            /\ pc' = "done"
       ELSE /\ pc' = "try_bits"
            /\ UNCHANGED <<ext, path>>
    /\ UNCHANGED <<debug_assertions, value, todo, stack>>
    /\ UNCHANGED <<decodeVars, splitVars>>

\* line 507: else if let Ok(bits) = Bits::try_from(value); lines 509-511
\* otherwise: the stack is created and the post-order iteration begins
FromTryBits ==
    /\ pc = "try_bits"
    /\ LET bits == Bits_try_from(value) IN
       IF bits # Err
       THEN /\ ext' = ExtBits(bits[2])
            /\ path' = "bits"
            /\ pc' = "done"
            /\ UNCHANGED <<todo, stack>>
       ELSE /\ pc' = "pass"
            /\ path' = "general"
            /\ todo' = PostOrder(value)
            /\ stack' = <<>>
            /\ UNCHANGED ext
    /\ UNCHANGED <<debug_assertions, value>>
    /\ UNCHANGED <<decodeVars, splitVars>>

\* lines 511-556: one iteration of the loop of the general pass
PassStep ==
    /\ pc = "pass"
    /\ todo # <<>>
    /\ LET r == PassNode(stack, Head(todo), debug_assertions) IN
       IF r = Panic
       THEN /\ ext' = Panic
            /\ pc' = "done"
            /\ UNCHANGED <<todo, stack>>
       ELSE /\ stack' = r[2]
            /\ todo' = Tail(todo)
            /\ UNCHANGED <<ext, pc>>
    /\ UNCHANGED <<debug_assertions, value, path>>
    /\ UNCHANGED <<decodeVars, splitVars>>

\* lines 558-559: the loop is over; the last fragment is finalised
PassFinish ==
    /\ pc = "pass"
    /\ todo = <<>>
    /\ ext' = PassResult(stack, debug_assertions)
    /\ pc' = "done"
    /\ UNCHANGED <<debug_assertions, value, path, todo, stack>>
    /\ UNCHANGED <<decodeVars, splitVars>>

NextCompress == FromTryBytes \/ FromTryBits \/ PassStep \/ PassFinish

SpecCompress == InitCompress /\ [][NextCompress]_vars

\* ------------------------------------------------------------------------
\* Claims about compress (checked under SpecCompress)
\* ------------------------------------------------------------------------

\* the bits of a generic value's own tree, read in pre-order:
\* a left-injection is 0, a right-injection is 1
RECURSIVE NativeBits(_)
NativeBits(v) ==
    CASE Tag(v) = "Unit" -> <<>>
      [] Tag(v) = "SumL" -> <<0>> \o NativeBits(v[2])
      [] Tag(v) = "SumR" -> <<1>> \o NativeBits(v[2])
      [] Tag(v) = "Prod" -> NativeBits(v[2]) \o NativeBits(v[3])

\* k when v is a perfectly balanced tree of pairs whose 2^k leaves are each a
\* left- or right-injection of unit, and -1 for every other shape
RECURSIVE UniformLog(_)
UniformLog(v) ==
    CASE Tag(v) = "Unit" -> -1
      [] Tag(v) \in {"SumL", "SumR"} -> IF v[2] = Unit THEN 0 ELSE -1
      [] Tag(v) = "Prod" ->
            LET l == UniformLog(v[2])
                r == UniformLog(v[3])
            IN  IF l >= 0 /\ l = r THEN l + 1 ELSE -1

IsUniformRun(v) == UniformLog(v) >= 0

\* byte k of a bit sequence: 8 consecutive bits, most significant first
PackedByte(bits, k) ==
    128 * bits[8 * k - 7] + 64 * bits[8 * k - 6] + 32 * bits[8 * k - 5]
    + 16 * bits[8 * k - 4] + 8 * bits[8 * k - 3] + 4 * bits[8 * k - 2]
    + 2 * bits[8 * k - 1] + bits[8 * k]

Packed(bits) == [k \in 1..(Len(bits) \div 8) |-> PackedByte(bits, k)]

\* C1: for every generic value v, ExtValue::from(v) returns an Extended Value
\* whose iter_bits() yields exactly the bits of v's native tree in pre-order.
C1_CompressRoundTrip ==
    pc = "done" =>
        /\ ext # Panic
        /\ ExtValue_iter_bits(ext) = NativeBits(value)

C9_StrictFailsClosed ==
    (pc = "done" /\ path \in {"bytes", "bits"}) => IsUniformRun(value)

\* C10: for every v on which the strict Byte-run or Bit-run conversion
\* succeeds, the general post-order pass alone produces an Extended Value
\* equal to the one the fast path returns.
C10_FastEqualsGeneral ==
    (pc = "done" /\ path \in {"bytes", "bits"}) =>
        GeneralPass(value, debug_assertions) = ext

\* C11: whenever the general pass is about to process a pair node and the two
\* fragments it will pop are both pending bit-runs, the two runs have equal
\* length and that length is 1, 2 or 4; when both are pending byte-runs, the
\* two runs have equal, non-zero length: the assertions that guard the merge
\* (lines 534-535 and 544-545) hold.
C11_EqualLengthMerge ==
    (pc = "pass" /\ todo # <<>> /\ Tag(Head(todo)) = "Prod" /\ Len(stack) >= 2) =>
        LET right == Top(stack)
            left == Top(Pop(stack))
        IN  /\ (right[1] = "ItemBits" /\ left[1] = "ItemBits") =>
                   /\ Len(right[2]) = Len(left[2])
                   /\ Len(right[2]) \in {1, 2, 4}
            /\ (right[1] = "ItemBytes" /\ left[1] = "ItemBytes") =>
                   /\ Len(right[2]) = Len(left[2])
                   /\ Len(right[2]) # 0

\* ------------------------------------------------------------------------
\* ExtValue::from_bits (decompress) as a state machine
\* ------------------------------------------------------------------------

\* type descriptors (simplicity::types::Final)
TUnit == <<"TUnit">>
TSum(a, b) == <<"TSum", a, b>>
TProd(a, b) == <<"TProd", a, b>>

is_unit(t) == t[1] = "TUnit"
split_sum(t) == IF t[1] = "TSum" THEN Some(<<t[2], t[3]>>) ELSE None
split_product(t) == IF t[1] = "TProd" THEN Some(<<t[2], t[3]>>) ELSE None

\* enum Task
ReadType(t) == <<"ReadType", t>>
MakeLeft == <<"MakeLeft">>
MakeRight == <<"MakeRight">>
MakeProduct == <<"MakeProduct">>

\* every type descriptor of depth at most d
RECURSIVE Types(_)
Types(d) ==
    IF d = 0 THEN {TUnit}
    ELSE LET sub == Types(d - 1) IN
         {TUnit} \cup {TSum(a, b) : a \in sub, b \in sub}
                 \cup {TProd(a, b) : a \in sub, b \in sub}

\* every bit sequence of length at most n
RECURSIVE BitSeqs(_)
BitSeqs(n) ==
    IF n = 0 THEN {<<>>}
    ELSE LET shorter == BitSeqs(n - 1) IN
         shorter \cup {Append(q, b) : q \in shorter, b \in {0, 1}}

InitDecode ==
    /\ debug_assertions \in BOOLEAN
    /\ pc = "from_bits"
    /\ ty \in Types(MaxTypeDepth)
    /\ given \in BitSeqs(MaxBits)
    /\ it = given
    /\ task_stack = <<>> /\ result_stack = <<>> /\ decoded = NoValue
    /\ compressIdle /\ splitIdle

\* lines 411-412
FromBitsEnter ==
    /\ pc = "from_bits"
    /\ task_stack' = <<ReadType(ty)>>
    /\ result_stack' = <<>>
    /\ pc' = "loop"
    /\ UNCHANGED <<debug_assertions, ty, it, given, decoded>>
    /\ UNCHANGED <<compressVars, splitVars>>

\* lines 420-426 with the two pushes exchanged: the wrapping task ends on
\* top of the task stack
ReadSum_wrap_first(t) ==
    LET bit == Head(it)
        parts == split_sum(t)[2]
    IN  /\ it' = Tail(it)
        /\ task_stack' = IF bit = 0
                         THEN Pop(task_stack) \o <<ReadType(parts[1]), MakeLeft>>
                         ELSE Pop(task_stack) \o <<ReadType(parts[2]), MakeRight>>

\* lines 420-426, with a bit left in the iterator
ReadSum(t) ==
    LET bit == Head(it)
        parts == split_sum(t)[2]
    IN  /\ it' = Tail(it)
        /\ task_stack' = IF bit = 0
                         THEN Pop(task_stack) \o <<MakeLeft, ReadType(parts[1])>>
                         ELSE Pop(task_stack) \o <<MakeRight, ReadType(parts[2])>>

\* lines 416-432: Task::ReadType(ty)
TaskReadType ==
    /\ pc = "loop"
    /\ task_stack # <<>>
    /\ Top(task_stack)[1] = "ReadType"
    /\ LET t == Top(task_stack)[2] IN
       IF is_unit(t) THEN
            /\ result_stack' = Append(result_stack, ExtUnit)
            /\ task_stack' = Pop(task_stack)
            /\ UNCHANGED <<it, decoded, pc>>
       ELSE IF split_sum(t) # None THEN
            IF it = <<>> THEN
                \* it.next().expect("enough bits") on an exhausted iterator
                /\ decoded' = Panic
                /\ pc' = "done"
                /\ task_stack' = Pop(task_stack)
                /\ UNCHANGED <<it, result_stack>>
            ELSE
                /\ ReadSum(t)
                /\ UNCHANGED <<result_stack, decoded, pc>>
       ELSE IF split_product(t) # None THEN
            /\ task_stack' = Pop(task_stack) \o
                    <<MakeProduct, ReadType(split_product(t)[2][2]),
                      ReadType(split_product(t)[2][1])>>
            /\ UNCHANGED <<it, result_stack, decoded, pc>>
       ELSE
            /\ task_stack' = Pop(task_stack)
            /\ UNCHANGED <<it, result_stack, decoded, pc>>
    /\ UNCHANGED <<debug_assertions, ty, given>>
    /\ UNCHANGED <<compressVars, splitVars>>

\* lines 433-440: Task::MakeLeft and Task::MakeRight
TaskMakeSum(task, tag) ==
    /\ pc = "loop"
    /\ task_stack # <<>>
    /\ Top(task_stack) = task
    /\ IF Len(result_stack) < 1 THEN
            /\ decoded' = Panic
            /\ pc' = "done"
            /\ task_stack' = Pop(task_stack)
            /\ UNCHANGED result_stack
       ELSE
            /\ result_stack' = Append(Pop(result_stack), <<tag, Top(result_stack)>>)
            /\ task_stack' = Pop(task_stack)
            /\ UNCHANGED <<decoded, pc>>
    /\ UNCHANGED <<debug_assertions, ty, it, given>>
    /\ UNCHANGED <<compressVars, splitVars>>

TaskMakeLeft == TaskMakeSum(MakeLeft, "Left")

TaskMakeRight == TaskMakeSum(MakeRight, "Right")

\* lines 441-445: Task::MakeProduct
TaskMakeProduct ==
    /\ pc = "loop"
    /\ task_stack # <<>>
    /\ Top(task_stack) = MakeProduct
    /\ IF Len(result_stack) < 2 THEN
            /\ decoded' = Panic
            /\ pc' = "done"
            /\ task_stack' = Pop(task_stack)
            /\ UNCHANGED result_stack
       ELSE
            LET right == Top(result_stack)
                left == Top(Pop(result_stack))
            IN  /\ result_stack' = Append(Pop(Pop(result_stack)), ExtProduct(left, right))
                /\ task_stack' = Pop(task_stack)
                /\ UNCHANGED <<decoded, pc>>
    /\ UNCHANGED <<debug_assertions, ty, it, given>>
    /\ UNCHANGED <<compressVars, splitVars>>

\* lines 449-450: the task stack is empty
FromBitsReturn ==
    /\ pc = "loop"
    /\ task_stack = <<>>
    /\ IF (debug_assertions /\ Len(result_stack) # 1) \/ Len(result_stack) < 1
       THEN decoded' = Panic /\ UNCHANGED result_stack
       ELSE decoded' = Top(result_stack) /\ result_stack' = Pop(result_stack)
    /\ pc' = "done"
    /\ UNCHANGED <<debug_assertions, ty, it, given, task_stack>>
    /\ UNCHANGED <<compressVars, splitVars>>

NextDecode ==
    \/ FromBitsEnter
    \/ TaskReadType
    \/ TaskMakeLeft
    \/ TaskMakeRight
    \/ TaskMakeProduct
    \/ FromBitsReturn

SpecDecode == InitDecode /\ [][NextDecode]_vars

\* ------------------------------------------------------------------------
\* Claims about from_bits (checked under SpecDecode)
\* ------------------------------------------------------------------------

Max(a, b) == IF a >= b THEN a ELSE b

\* the bit width of a type: 0 for unit, the sum of both components for a
\* product, one tag bit plus the wider branch for a sum
RECURSIVE TypeBitWidth(_)
TypeBitWidth(t) ==
    CASE t[1] = "TUnit" -> 0
      [] t[1] = "TSum" -> 1 + Max(TypeBitWidth(t[2]), TypeBitWidth(t[3]))
      [] t[1] = "TProd" -> TypeBitWidth(t[2]) + TypeBitWidth(t[3])

\* C2: for every type descriptor T and bit sequence s with |s| = bitWidth(T),
\* from_bits(T, s) consumes exactly bitWidth(T) bits of s and the bits
\* yielded by iter_bits of the result equal s.
C2_DecodeRoundTrip ==
    (pc = "done" /\ Len(given) = TypeBitWidth(ty)) =>
        /\ decoded # Panic
        /\ Len(given) - Len(it) = TypeBitWidth(ty)
        /\ ExtValue_iter_bits(decoded) = given

\* C4: when the bit iterator runs out before every sum tag on the decoded
\* path has been read, from_bits returns an error result to its caller: it
\* never terminates abruptly.
C4_OutOfBitsIsAnError ==
    pc = "done" => decoded # Panic

\* the work loop runs as long as it has a step to take
SpecDecodeFair == SpecDecode /\ WF_vars(NextDecode)

\* the bits left after a value of type t has been read from bits, or Err when
\* a sum is met with no bit left
RECURSIVE BitsAfter(_, _)
BitsAfter(t, bits) ==
    CASE t[1] = "TUnit" -> Ok(bits)
      [] t[1] = "TSum" ->
            IF bits = <<>> THEN Err
            ELSE BitsAfter((IF Head(bits) = 0 THEN t[2] ELSE t[3]), Tail(bits))
      [] t[1] = "TProd" ->
            LET l == BitsAfter(t[2], bits) IN
            IF l = Err THEN Err ELSE BitsAfter(t[3], l[2])

\* the bit stream supplies a bit for each sum encountered
SuppliesEveryTag == BitsAfter(ty, given) # Err

\* only Empty, TaggedLeft, TaggedRight and Pair nodes: no run
RECURSIVE ExplicitOnly(_)
ExplicitOnly(x) ==
    CASE x[1] = "Unit" -> TRUE
      [] x[1] \in {"Left", "Right"} -> ExplicitOnly(x[2])
      [] x[1] = "Product" -> ExplicitOnly(x[2]) /\ ExplicitOnly(x[3])
      [] OTHER -> FALSE

\* no wrapping or pairing task is on top of the task stack with fewer results
\* than it pops, and an empty task stack leaves exactly one result, which is
\* fully explicit
CleanStacks ==
    pc = "loop" =>
        IF task_stack = <<>>
        THEN Len(result_stack) = 1 /\ ExplicitOnly(Top(result_stack))
        ELSE /\ Top(task_stack) \in {MakeLeft, MakeRight} => Len(result_stack) >= 1
             /\ Top(task_stack) = MakeProduct => Len(result_stack) >= 2

\* from_bits has returned the one fully explicit result, with both stacks
\* empty
CleanReturn ==
    /\ pc = "done"
    /\ task_stack = <<>> /\ result_stack = <<>>
    /\ decoded \notin {Panic, NoValue}
    /\ ExplicitOnly(decoded)

\* C12: for every type descriptor and every bit stream that supplies a bit for
\* each sum encountered, the work loop of from_bits eventually empties the
\* task stack and returns; no MakeLeft, MakeRight or MakeProduct task is ever
\* executed with fewer results on the result stack than it pops; and when the
\* task stack is empty the result stack holds exactly one value, made only of
\* Unit, Left, Right and Product nodes.
C12_DecodeTerminatesCleanly ==
    /\ []CleanStacks
    /\ SuppliesEveryTag ~> CleanReturn

\* C12 witness: a pair of a right and a left injection has been decoded from
\* two bits, each sum having found its tag bit
C12_Witness ==
    /\ CleanReturn
    /\ ty = TProd(TSum(TUnit, TUnit), TSum(TUnit, TUnit))
    /\ given = <<1, 0>>
    /\ it = <<>>
    /\ decoded = ExtProduct(ExtRight(ExtUnit), ExtLeft(ExtUnit))

\* ------------------------------------------------------------------------
\* Bisection of runs: Bits::split and Bytes::split (SpecRuns)
\* ------------------------------------------------------------------------

\* Largest j for which the runs of 2^j elements are built by a constructor.
MaxRunLog == 2

\* every sequence over S of exactly n elements
RECURSIVE SeqsOfLen(_, _)
SeqsOfLen(S, n) ==
    IF n = 0 THEN {<<>>}
    ELSE {Append(q, x) : q \in SeqsOfLen(S, n - 1), x \in S}

PowerLens == {Pow2(j) : j \in 0..MaxRunLog}

RunBytes == {111, 171}

\* the runs the constructors Bits::from_bits, Bits::from_bit, Bits::from_byte
\* and Bytes::from_bytes return
BuiltBits ==
    {Bits_from_bits(q) : q \in UNION {SeqsOfLen({0, 1}, n) : n \in PowerLens}}
    \cup {Bits_from_bit(b) : b \in {0, 1}}
    \cup {Bits_from_byte(b) : b \in SampleBytes}

BuiltBytes ==
    {Bytes_from_bytes(q) : q \in UNION {SeqsOfLen(RunBytes, n) : n \in PowerLens}}

InitRuns ==
    /\ debug_assertions \in BOOLEAN
    /\ pc = "run"
    /\ e \in {ExtBits(b) : b \in BuiltBits} \cup {ExtBytes(b) : b \in BuiltBytes}
    /\ prev = NoValue /\ res = NoValue /\ text = <<>>
    /\ compressIdle /\ decodeIdle

\* r.split() on a Bit-run; the caller goes on with either half
BitsSplit ==
    /\ Tag(e) = "Bits"
    /\ LET r == Bits_split(e[2]) IN
       /\ res' = r
       /\ e' \in IF r[1] = "Some" THEN {ExtBits(r[2][1]), ExtBits(r[2][2])} ELSE {e}
    /\ prev' = e
    /\ pc' = "bits_split"
    /\ UNCHANGED <<debug_assertions, text>>
    /\ UNCHANGED <<compressVars, decodeVars>>

\* r.split() on a Byte-run; the caller goes on with either half
BytesSplit ==
    /\ Tag(e) = "Bytes"
    /\ LET r == Bytes_split(e[2]) IN
       /\ res' = r
       /\ e' \in CASE r[1] = "Ok" -> {ExtBytes(r[2][1]), ExtBytes(r[2][2])}
                   [] r[1] = "Err" -> {ExtBits(r[2][1]), ExtBits(r[2][2])}
                   [] OTHER -> {e}
    /\ prev' = e
    /\ pc' = "bytes_split"
    /\ UNCHANGED <<debug_assertions, text>>
    /\ UNCHANGED <<compressVars, decodeVars>>

NextRuns == BitsSplit \/ BytesSplit

SpecRuns == InitRuns /\ [][NextRuns]_vars

\* the elements inside a run's (start, len) window
Window(run) == SubSeq(run[1], run[2] + 1, run[2] + run[3])

\* the bits a Bit-run renders, without the "0b" prefix
RenderedBits(run) == Tail(Bits_fmt(run))

\* C6: for every Bit-run r reachable from a constructor by bisections, if r
\* has length n > 1 then r.split() returns (left, right), each of length n/2,
\* and the rendered bits of left followed by those of right are the rendered
\* bits of r; if r has length 1 then r.split() returns None.
C6_BitsBisect ==
    pc = "bits_split" =>
        LET r == prev[2]
            n == r[3]
        IN  IF n > 1
            THEN /\ res[1] = "Some"
                 /\ res[2][1][3] = n \div 2
                 /\ res[2][2][3] = n \div 2
                 /\ 2 * (n \div 2) = n
                 /\ RenderedBits(res[2][1]) \o RenderedBits(res[2][2]) = RenderedBits(r)
            ELSE n = 1 /\ res = None

\* C6 witness: a right half, itself obtained by bisection, has been bisected
C6_Witness ==
    /\ pc = "bits_split"
    /\ prev[2][2] > 0
    /\ prev[2][3] > 1
    /\ res[1] = "Some"

\* C7: for every Byte-run r reachable from a constructor by bisections, if r
\* has length n > 1 then r.split() returns two byte-runs, the first covering
\* the first n/2 bytes of r and the second the last n/2; if r has length 1 it
\* returns two bit-runs of length 4, the first holding the byte's four most
\* significant bits and the second its four least significant bits (most
\* significant first); never a zero-length byte-run.
C7_BytesBisect ==
    pc = "bytes_split" =>
        LET r == prev[2]
            n == r[3]
        IN  IF n > 1
            THEN /\ res[1] = "Ok"
                 /\ 2 * (n \div 2) = n
                 /\ res[2][1][3] = n \div 2
                 /\ res[2][2][3] = n \div 2
                 /\ Window(res[2][1]) = SubSeq(Window(r), 1, n \div 2)
                 /\ Window(res[2][2]) = SubSeq(Window(r), n \div 2 + 1, n)
            ELSE LET byte == Window(r)[1] IN
                 /\ n = 1
                 /\ res[1] = "Err"
                 /\ res[2][1][3] = 4
                 /\ res[2][2][3] = 4
                 /\ Window(res[2][1]) = <<(byte \div 128) % 2, (byte \div 64) % 2,
                                          (byte \div 32) % 2, (byte \div 16) % 2>>
                 /\ Window(res[2][2]) = <<(byte \div 8) % 2, (byte \div 4) % 2,
                                          (byte \div 2) % 2, byte % 2>>

\* C7 witness: a single byte that is the last byte of a longer run has been
\* bisected into two bit-runs
C7_Witness ==
    /\ pc = "bytes_split"
    /\ prev[2][3] = 1
    /\ prev[2][2] > 0
    /\ res[1] = "Err"

\* ------------------------------------------------------------------------
\* Structural splitting of Extended Values (SpecSplit)
\* ------------------------------------------------------------------------

\* the explicit tree from_bits builds for a word of 2^k bits
RECURSIVE ExplicitWord(_)
ExplicitWord(bits) ==
    IF Len(bits) = 1 THEN (IF bits[1] = 0 THEN ExtLeft(ExtUnit) ELSE ExtRight(ExtUnit))
    ELSE ExtProduct(ExplicitWord(SubSeq(bits, 1, Len(bits) \div 2)),
                    ExplicitWord(SubSeq(bits, Len(bits) \div 2 + 1, Len(bits))))

\* Extended Values made by the constructors: runs, explicit words, and pairs
\* of two runs of the same kind and length
SplitRoots ==
    {ExtBits(b) : b \in BuiltBits} \cup {ExtBytes(b) : b \in BuiltBytes}
    \cup {ExplicitWord(q) : q \in UNION {SeqsOfLen({0, 1}, n) : n \in PowerLens}}
    \cup {ExtProduct(ExtBits(a), ExtBits(b)) :
            a \in {x \in BuiltBits : x[3] = 2}, b \in {x \in BuiltBits : x[3] = 2}}
    \cup {ExtProduct(ExtBytes(a), ExtBytes(b)) :
            a \in {x \in BuiltBytes : x[3] = 1}, b \in {x \in BuiltBytes : x[3] = 1}}

InitSplit ==
    /\ debug_assertions \in BOOLEAN
    /\ pc = "value"
    /\ e \in SplitRoots
    /\ prev = NoValue /\ res = NoValue /\ text = <<>>
    /\ compressIdle /\ decodeIdle

\* e.split_product(); the caller goes on with either part
SplitProduct ==
    /\ LET r == ExtValue_split_product(e) IN
       /\ res' = r
       /\ e' \in IF r[1] = "Some" THEN {r[2][1], r[2][2]} ELSE {e}
    /\ prev' = e
    /\ pc' = "split_product"
    /\ UNCHANGED <<debug_assertions, text>>
    /\ UNCHANGED <<compressVars, decodeVars>>

\* e.split_left(); the caller goes on with the child
SplitLeft ==
    /\ LET r == ExtValue_split_left(e) IN
       /\ res' = r
       /\ e' = IF r[1] = "Some" THEN r[2] ELSE e
    /\ prev' = e
    /\ pc' = "split_left"
    /\ UNCHANGED <<debug_assertions, text>>
    /\ UNCHANGED <<compressVars, decodeVars>>

\* e.split_right(); the caller goes on with the child
SplitRight ==
    /\ LET r == ExtValue_split_right(e) IN
       /\ res' = r
       /\ e' = IF r[1] = "Some" THEN r[2] ELSE e
    /\ prev' = e
    /\ pc' = "split_right"
    /\ UNCHANGED <<debug_assertions, text>>
    /\ UNCHANGED <<compressVars, decodeVars>>

NextSplit == SplitProduct \/ SplitLeft \/ SplitRight

SpecSplit == InitSplit /\ [][NextSplit]_vars

\* C3: for any Extended Value e (explicit node or run, including runs
\* obtained by earlier splits) with bit_width(e) = 2k, k >= 1,
\* split_product(e) returns a pair (a, b) with bit_width(a) = bit_width(b)
\* = k, and the bits yielded by a.iter_bits() followed by the bits yielded
\* by b.iter_bits() equal the bits yielded by e.iter_bits().
C3_SplitAgreement ==
    (/\ pc = "split_product"
     /\ ExtValue_bit_width(prev) > 0
     /\ ExtValue_bit_width(prev) % 2 = 0) =>
        /\ res[1] = "Some"
        /\ 2 * ExtValue_bit_width(res[2][1]) = ExtValue_bit_width(prev)
        /\ 2 * ExtValue_bit_width(res[2][2]) = ExtValue_bit_width(prev)
        /\ ExtValue_iter_bits(res[2][1]) \o ExtValue_iter_bits(res[2][2])
             = ExtValue_iter_bits(prev)

\* C13: for every Extended Value e made by a constructor and then reached by
\* any sequence of split_left / split_right / split_product calls, e.iter_bits()
\* yields e.bit_width() bits, and when e is a run the bits it yields are
\* exactly the bits (the bits of the bytes) inside its (start, len) window.
C13_WidthMatchesIteration ==
    e # NoValue =>
        /\ Len(ExtValue_iter_bits(e)) = ExtValue_bit_width(e)
        /\ e[1] = "Bits" => ExtValue_iter_bits(e) = Window(e[2])
        /\ e[1] = "Bytes" =>
              ExtValue_iter_bits(e) = FlatBits(e[2][1], e[2][2] + 1, e[2][2] + e[2][3])

\* ------------------------------------------------------------------------
\* impl fmt::Display for ExtValue (SpecRender)
\* ------------------------------------------------------------------------

\* PreOrderIterItem: a node and the number of its children already yielded
IterItem(node, n_children_yielded) == <<node, n_children_yielded>>

\* VerbosePreOrderIter::next with NoSharing: pops an item, pushes the item's
\* next visit and the child to descend into, and yields the popped item
VerboseNext(stk) ==
    LET current == Top(stk)
        node == current[1]
        n == current[2]
        rest == Pop(stk)
    IN  CASE n = 0 /\ Tag(node) \in {"Left", "Right", "Product"} ->
                rest \o <<IterItem(node, 1), IterItem(node[2], 0)>>
          [] n = 1 /\ Tag(node) = "Product" ->
                rest \o <<IterItem(node, 2), IterItem(node[3], 0)>>
          [] OTHER -> rest

FmtItem_no_suppression(node, n) ==
    CASE Tag(node) = "Unit" -> <<"●">>
      [] Tag(node) = "Left" -> <<"L">>
      [] Tag(node) = "Right" -> <<"R">>
      [] Tag(node) = "Product" ->
            (CASE n = 0 -> <<"(">> [] n = 1 -> <<", ">> [] OTHER -> <<")">>)
      [] Tag(node) = "Bits" -> Bits_fmt(node[2])
      [] Tag(node) = "Bytes" -> Bytes_fmt(node[2])

\* lines 288-309: what fmt writes for one yielded item
FmtItem(node, n) ==
    CASE Tag(node) = "Unit" -> <<"●">>
      [] Tag(node) = "Left" -> IF n = 0 THEN <<"L">> ELSE <<>>
      [] Tag(node) = "Right" -> IF n = 0 THEN <<"R">> ELSE <<>>
      [] Tag(node) = "Product" ->
            (CASE n = 0 -> <<"(">> [] n = 1 -> <<", ">> [] OTHER -> <<")">>)
      [] Tag(node) = "Bits" -> Bits_fmt(node[2])
      [] Tag(node) = "Bytes" -> Bytes_fmt(node[2])

\* one iteration of the for loop of fmt: st is <<iterator stack, text so far>>
FmtStep(st) ==
    IF st[1] = <<>> THEN st
    ELSE <<VerboseNext(st[1]), st[2] \o FmtItem(Top(st[1])[1], Top(st[1])[2])>>

\* 2^k iterations of the loop (an exhausted iterator ends it)
RECURSIVE FmtLoop(_, _)
FmtLoop(st, k) ==
    IF k = 0 THEN FmtStep(st) ELSE FmtLoop(FmtLoop(st, k - 1), k - 1)

RECURSIVE CeilLog2(_)
CeilLog2(n) == IF n <= 1 THEN 0 ELSE 1 + CeilLog2((n + 1) \div 2)

\* <ExtValue as Display>::fmt: the loop runs until the iterator is exhausted,
\* which takes at most three visits per node
ExtValue_fmt(self) ==
    FmtLoop(<<(<<IterItem(self, 0)>>), <<>>>>,
            CeilLog2(3 * Len(ExtPreOrder(self))))[2]

\* Largest depth of the Extended Values that are rendered.
MaxExtDepth == 2

RenderLeaves ==
    {ExtUnit,
     ExtBits(MkBits(ByteToBits(111), 2, 2)),
     ExtBytes(MkBytes(<<222, 173, 190, 239>>, 2, 2))}

RECURSIVE ExtTrees(_)
ExtTrees(d) ==
    IF d = 0 THEN RenderLeaves
    ELSE LET sub == ExtTrees(d - 1) IN
         RenderLeaves \cup {ExtLeft(t) : t \in sub} \cup {ExtRight(t) : t \in sub}
                      \cup {ExtProduct(a, b) : a \in sub, b \in sub}

\* the value of the test display_value
DisplayExample ==
    ExtProduct(ExtLeft(ExtRight(ExtUnit)),
               ExtProduct(ExtBits(Bits_from_byte(111)),
                          ExtBytes(Bytes_from_bytes(<<222, 173, 190, 239>>))))

InitRender ==
    /\ debug_assertions \in BOOLEAN
    /\ pc = "value"
    /\ e \in ExtTrees(MaxExtDepth) \cup {DisplayExample}
    /\ prev = NoValue /\ res = NoValue /\ text = <<>>
    /\ compressIdle /\ decodeIdle

\* e.to_string()
Fmt ==
    /\ pc = "value"
    /\ text' = ExtValue_fmt(e)
    /\ pc' = "fmt"
    /\ UNCHANGED <<debug_assertions, e, prev, res>>
    /\ UNCHANGED <<compressVars, decodeVars>>

NextRender == Fmt

SpecRender == InitRender /\ [][NextRender]_vars

\* the recursive bracket notation
RECURSIVE Render(_)
Render(x) ==
    CASE Tag(x) = "Unit" -> <<"●">>
      [] Tag(x) = "Left" -> <<"L">> \o Render(x[2])
      [] Tag(x) = "Right" -> <<"R">> \o Render(x[2])
      [] Tag(x) = "Product" ->
            <<"(">> \o Render(x[2]) \o <<", ">> \o Render(x[3]) \o <<")">>
      [] Tag(x) = "Bits" ->
            <<"0b">> \o [j \in 1..x[2][3] |->
                            IF Window(x[2])[j] = 1 THEN "1" ELSE "0"]
      [] Tag(x) = "Bytes" ->
            <<"0x">> \o [j \in 1..(2 * x[2][3]) |->
                            IF j % 2 = 1
                            THEN HexDigit(Window(x[2])[(j + 1) \div 2] \div 16)
                            ELSE HexDigit(Window(x[2])[j \div 2] % 16)]

Count(t, token, upto) == Cardinality({j \in 1..upto : t[j] = token})

\* every "(" is matched by exactly one later ")"
Bracketed(t) ==
    /\ \A i \in 1..Len(t) : Count(t, "(", i) >= Count(t, ")", i)
    /\ Count(t, "(", Len(t)) = Count(t, ")", Len(t))

\* C8: for every Extended Value e, the text written by the iterative
\* traversal equals render(e), the recursive bracket notation, and every "("
\* is matched by exactly one later ")".
C8_RenderIsBracketNotation ==
    pc = "fmt" => (text = Render(e) /\ Bracketed(text))

\* C8 witness: the value of the test display_value has been rendered as
\* (LR●, (0b01101111, 0xdeadbeef))
C8_Witness ==
    /\ pc = "fmt"
    /\ e = DisplayExample
    /\ text = <<"(", "L", "R", "●", ", ", "(", "0b", "0", "1", "1", "0", "1", "1",
                "1", "1", ", ", "0x", "d", "e", "a", "d", "b", "e", "e", "f", ")", ")">>

====
